---- MODULE Spec2Model ----
(***************************************************************************)
(* Model of observatory: the pull-request conflict detector                *)
(* (src/helpers/pulls.rs) and the GitHub client's token cache and          *)
(* installation registry (src/github.rs).                                  *)
(*                                                                         *)
(* Strings that the code parses, formats or sorts (file paths, URLs) are   *)
(* sequences of one-character strings; opaque strings (token values,       *)
(* repository names) are TLA+ values compared only for equality.           *)
(***************************************************************************)
EXTENDS Integers, Sequences, FiniteSets, TLC

\* Option<T>: None, or Some(x) with x in the field some.
None == [none |-> TRUE]

Some(x) == [some |-> x]

Range(s) == {s[i] : i \in 1..Len(s)}

(***************************************************************************)
(* Bounds of the model.                                                    *)
(***************************************************************************)
MaxFiles == 2      \* files per diff
NumProcs == 2      \* concurrent tasks sharing one Client
NumTenants == 2    \* installation ids known to the remote
MaxTime == 8       \* last clock value (minutes)
ClockStep == 4     \* minutes between two observed clock values
MaxMints == 2      \* installation tokens the remote issues in one run
MaxPages == 99     \* non-empty pages of pull requests the remote holds
MaxCalls == 2      \* operations started in one concurrent run
MaxSeqCalls == 3   \* operations started in one sequential run
MaxTokens == 6     \* pieces a file path given to Article::from_file_path is made of

(***************************************************************************)
(* Strings: byte order of the characters used, Rust's Ord for String and   *)
(* for Vec<String>.                                                        *)
(***************************************************************************)
CharCode(c) ==
    CASE c = "." -> 46
      [] c = "/" -> 47
      [] c = "1" -> 49
      [] c = "2" -> 50
      [] c = "b" -> 98
      [] c = "d" -> 100
      [] c = "e" -> 101
      [] c = "f" -> 102
      [] c = "g" -> 103
      [] c = "m" -> 109
      [] c = "n" -> 110
      [] c = "r" -> 114
      [] c = "s" -> 115
      [] c = "t" -> 116
      [] c = "u" -> 117
      [] c = "w" -> 119
      [] c = "x" -> 120

\* -1, 0, 1 as a < b, a = b, a > b: lexicographic on bytes, a proper prefix first.
RECURSIVE StrCmp(_, _)
StrCmp(a, b) ==
    IF a = <<>> /\ b = <<>> THEN 0
    ELSE IF a = <<>> THEN -1
    ELSE IF b = <<>> THEN 1
    ELSE IF CharCode(Head(a)) < CharCode(Head(b)) THEN -1
    ELSE IF CharCode(Head(a)) > CharCode(Head(b)) THEN 1
    ELSE StrCmp(Tail(a), Tail(b))

RECURSIVE VecStrCmp(_, _)
VecStrCmp(a, b) ==
    IF a = <<>> /\ b = <<>> THEN 0
    ELSE IF a = <<>> THEN -1
    ELSE IF b = <<>> THEN 1
    ELSE IF StrCmp(Head(a), Head(b)) # 0 THEN StrCmp(Head(a), Head(b))
    ELSE VecStrCmp(Tail(a), Tail(b))

EndsWith(s, suffix) ==
    /\ Len(s) >= Len(suffix)
    /\ SubSeq(s, Len(s) - Len(suffix) + 1, Len(s)) = suffix

\* Index of the last occurrence of c in s[1..n], 0 when there is none.
RECURSIVE LastIndexUpTo(_, _, _)
LastIndexUpTo(s, c, n) ==
    IF n = 0 THEN 0
    ELSE IF s[n] = c THEN n
    ELSE LastIndexUpTo(s, c, n - 1)

\* Index of the last occurrence of c in s, 0 when there is none.
LastIndexOf(s, c) == LastIndexUpTo(s, c, Len(s))

\* Vec<String>::sort: insertion of each element into the sorted prefix.
RECURSIVE InsertSorted(_, _)
InsertSorted(sorted, x) ==
    IF sorted = <<>> THEN <<x>>
    ELSE IF StrCmp(x, Head(sorted)) < 0 THEN <<x>> \o sorted
    ELSE <<Head(sorted)>> \o InsertSorted(Tail(sorted), x)

RECURSIVE SortStrings(_)
SortStrings(v) ==
    IF v = <<>> THEN <<>>
    ELSE InsertSorted(SortStrings(SubSeq(v, 1, Len(v) - 1)), v[Len(v)])

(***************************************************************************)
(* std::path::Path as Article::from_file_path uses it, on Unix.  Paths     *)
(* here have no "." component; repeated and trailing separators are        *)
(* skipped by Path, ".." is a component that is not a file name.           *)
(***************************************************************************)
DotDot == <<".", ".">>

\* Length of s[1..n] without its trailing separators.
RECURSIVE TrimmedLen(_, _)
TrimmedLen(s, n) ==
    IF n > 0 /\ s[n] = "/" THEN TrimmedLen(s, n - 1) ELSE n

\* s without its trailing separators.
TrimSeparators(s) == SubSeq(s, 1, TrimmedLen(s, Len(s)))

\* Path::file_name: the last component; none for "", "/" and a final "..".
FileName(s) ==
    LET t == TrimSeparators(s)
        name == SubSeq(t, LastIndexOf(t, "/") + 1, Len(t))
    IN  IF name = <<>> \/ name = DotDot THEN None ELSE Some(name)

\* Path::file_stem: the file name up to its last dot; the whole name when
\* it has no dot or only a leading one.
FileStem(s) ==
    LET name == FileName(s)
        dot  == LastIndexOf(name.some, ".")
    IN  IF name = None THEN None
        ELSE IF dot <= 1 THEN name
        ELSE Some(SubSeq(name.some, 1, dot - 1))

\* Path::parent: the path without its last component and the separators
\* before it; "" for a bare file name, "/" below the root, none for "" and
\* for "/".
Parent(s) ==
    LET t == TrimSeparators(s)
        slash == LastIndexOf(t, "/")
        before == TrimSeparators(SubSeq(t, 1, slash))
    IN  IF t = <<>> THEN None
        ELSE IF slash = 0 THEN Some(<<>>)
        ELSE IF before = <<>> THEN Some(<<"/">>)
        ELSE Some(before)

Panic == [panic |-> TRUE]

IsPanic(x) == x = Panic

\* Article::from_file_path: the two unwrap() calls panic on a missing
\* stem or parent.
from_file_path(s) ==
    LET language == FileStem(s)
        path == Parent(s)
    IN  IF language = None \/ path = None THEN Panic
        ELSE [path |-> path.some, language |-> language.some]

DotMd == <<".", "m", "d">>

\* Article::file_path: format!("{}/{}.md", path, language)
file_path(a) == a.path \o <<"/">> \o a.language \o DotMd

En == <<"e", "n">>

is_original(a) == a.language = En

is_translation(a) == ~is_original(a)

\* impl PartialEq for Article
ArticleEq(a, b) == a.path = b.path /\ a.language = b.language

(***************************************************************************)
(* Pull requests and diffs.  A diff (unidiff::PatchSet) is a sequence of   *)
(* patched files; a patched file is a modified or added file, whose        *)
(* target_file is "b/<path>" and whose path() is <path>.                   *)
(***************************************************************************)
BSlash == <<"b", "/">>

PatchedFile(p) == [target_file |-> BSlash \o p]

\* PatchedFile::path() as compare_pulls calls it.
PatchedFilePath(fp) == SubSeq(fp.target_file, Len(BSlash) + 1, Len(fp.target_file))

GuideEn == <<"g", "/", "e", "n", ".", "m", "d">>
GuideEs == <<"g", "/", "e", "s", ".", "m", "d">>
GuideFr == <<"g", "/", "f", "r", ".", "m", "d">>
WikiEn  == <<"w", "/", "e", "n", ".", "m", "d">>
RootEn  == <<"e", "n", ".", "m", "d">>
GuideTxt == <<"g", "/", "x", ".", "t", "x", "t">>

\* The file paths diffs are drawn from.
Paths == {GuideEn, GuideEs, GuideFr, WikiEn, RootEn, GuideTxt}

\* Diffs of at most MaxFiles files, each file listed once.
Diffs ==
    {d \in UNION {[1..n -> {PatchedFile(p) : p \in Paths}] : n \in 0..MaxFiles} :
        \A i, j \in 1..Len(d) : i # j => d[i] # d[j]}

PullNumbers == {1, 2}

\* html_url of pull n: ".../pull/n"
PullUrl(n) == IF n = 1 THEN <<"u", "/", "1">> ELSE <<"u", "/", "2">>

\* structs::PullRequest, the fields compare_pulls reads; diff is an Option.
PullRequests ==
    {[number |-> n, html_url |-> PullUrl(n), diff |-> d] :
        n \in PullNumbers, d \in {Some(f) : f \in Diffs} \cup {None}}

(***************************************************************************)
(* Conflicts and compare_pulls.                                            *)
(***************************************************************************)
ExistingChange == "ExistingChange"
NewOriginalChange == "NewOriginalChange"
ExistingOriginalChange == "ExistingOriginalChange"

\* Declaration order of the variants: the derived Ord of ConflictType.
KindRank(k) ==
    CASE k = ExistingChange -> 0
      [] k = NewOriginalChange -> 1
      [] k = ExistingOriginalChange -> 2

Conflict(kind, trigger, original, reference_url, file_set) ==
    [kind |-> kind, trigger |-> trigger, original |-> original,
     reference_url |-> reference_url, file_set |-> file_set]

IntCmp(a, b) == IF a < b THEN -1 ELSE IF a > b THEN 1 ELSE 0

\* #[derive(Ord)] for Conflict: lexicographic over the fields in
\* declaration order.
ConflictCmp(a, b) ==
    IF a.kind # b.kind THEN IntCmp(KindRank(a.kind), KindRank(b.kind))
    ELSE IF a.trigger # b.trigger THEN IntCmp(a.trigger, b.trigger)
    ELSE IF a.original # b.original THEN IntCmp(a.original, b.original)
    ELSE IF StrCmp(a.reference_url, b.reference_url) # 0
         THEN StrCmp(a.reference_url, b.reference_url)
    ELSE VecStrCmp(a.file_set, b.file_set)

RECURSIVE InsertConflict(_, _)
InsertConflict(sorted, x) ==
    IF sorted = <<>> THEN <<x>>
    ELSE IF ConflictCmp(x, Head(sorted)) < 0 THEN <<x>> \o sorted
    ELSE <<Head(sorted)>> \o InsertConflict(Tail(sorted), x)

\* out.sort()
RECURSIVE SortConflicts(_)
SortConflicts(v) ==
    IF v = <<>> THEN <<>>
    ELSE InsertConflict(SortConflicts(SubSeq(v, 1, Len(v) - 1)), v[Len(v)])

\* .filter(|fp| fp.target_file.ends_with(".md"))
MdFiles(diff) == SelectSeq(diff, LAMBDA fp : EndsWith(fp.target_file, DotMd))

EmptyLists == [overlaps |-> <<>>, originals |-> <<>>, translations |-> <<>>]

\* Mutant: the "different folders" test is missing.
ClassifyPair_NoDirCheck(acc, incoming, other) ==
    LET new_article == from_file_path(PatchedFilePath(incoming))
        other_article == from_file_path(PatchedFilePath(other))
    IN  IF IsPanic(new_article) \/ IsPanic(other_article) THEN Panic
        ELSE IF ArticleEq(new_article, other_article)
             THEN [acc EXCEPT !.overlaps = Append(@, file_path(new_article))]
        ELSE IF is_original(new_article) /\ is_translation(other_article)
             THEN [acc EXCEPT !.originals = Append(@, file_path(new_article))]
        ELSE IF is_translation(new_article) /\ is_original(other_article)
             THEN [acc EXCEPT !.translations = Append(@, file_path(new_article))]
        ELSE acc

\* Mutant: a new translation records the other pull's original file.
ClassifyPair_PushesOriginal(acc, incoming, other) ==
    LET new_article == from_file_path(PatchedFilePath(incoming))
        other_article == from_file_path(PatchedFilePath(other))
    IN  IF IsPanic(new_article) \/ IsPanic(other_article) THEN Panic
        ELSE IF new_article.path # other_article.path THEN acc
        ELSE IF ArticleEq(new_article, other_article)
             THEN [acc EXCEPT !.overlaps = Append(@, file_path(new_article))]
        ELSE IF is_original(new_article) /\ is_translation(other_article)
             THEN [acc EXCEPT !.originals = Append(@, file_path(new_article))]
        ELSE IF is_translation(new_article) /\ is_original(other_article)
             THEN [acc EXCEPT !.translations = Append(@, file_path(other_article))]
        ELSE acc

\* Body of the inner loop for one (incoming, other) pair of files.
ClassifyPair(acc, incoming, other) ==
    LET new_article == from_file_path(PatchedFilePath(incoming))
        other_article == from_file_path(PatchedFilePath(other))
    IN  IF IsPanic(new_article) \/ IsPanic(other_article) THEN Panic
        ELSE IF new_article.path # other_article.path THEN acc
        ELSE IF ArticleEq(new_article, other_article)
             THEN [acc EXCEPT !.overlaps = Append(@, file_path(new_article))]
        ELSE IF is_original(new_article) /\ is_translation(other_article)
             THEN [acc EXCEPT !.originals = Append(@, file_path(new_article))]
        ELSE IF is_translation(new_article) /\ is_original(other_article)
             THEN [acc EXCEPT !.translations = Append(@, file_path(new_article))]
        ELSE acc

RECURSIVE InnerLoop(_, _, _)
InnerLoop(acc, incoming, others) ==
    IF IsPanic(acc) \/ others = <<>> THEN acc
    ELSE InnerLoop(ClassifyPair(acc, incoming, Head(others)), incoming, Tail(others))

RECURSIVE OuterLoop(_, _, _)
OuterLoop(acc, incomings, others) ==
    IF IsPanic(acc) \/ incomings = <<>> THEN acc
    ELSE OuterLoop(InnerLoop(acc, Head(incomings), others), Tail(incomings), others)

\* The three sort() calls.
SortLists(acc) ==
    [overlaps |-> SortStrings(acc.overlaps),
     originals |-> SortStrings(acc.originals),
     translations |-> SortStrings(acc.translations)]

\* Mutant: NewOriginalChange notifies the new pull instead of the other one.
EmitConflicts_SwappedRoles(new_pull, other_pull, lists) ==
    (IF lists.overlaps # <<>>
     THEN <<Conflict(ExistingChange, new_pull.number, other_pull.number,
                     other_pull.html_url, lists.overlaps)>>
     ELSE <<>>)
    \o
    (IF lists.originals # <<>>
     THEN <<Conflict(NewOriginalChange, new_pull.number, other_pull.number,
                     other_pull.html_url, lists.originals)>>
     ELSE <<>>)
    \o
    (IF lists.translations # <<>>
     THEN <<Conflict(ExistingOriginalChange, new_pull.number, other_pull.number,
                     other_pull.html_url, lists.translations)>>
     ELSE <<>>)

\* Mutant: the three conflicts are pushed whether or not their list is empty.
EmitConflicts_Unconditional(new_pull, other_pull, lists) ==
    <<Conflict(ExistingChange, new_pull.number, other_pull.number,
               other_pull.html_url, lists.overlaps),
      Conflict(NewOriginalChange, other_pull.number, new_pull.number,
               new_pull.html_url, lists.originals),
      Conflict(ExistingOriginalChange, new_pull.number, other_pull.number,
               other_pull.html_url, lists.translations)>>

\* The three pushes to out, before out.sort().
EmitConflicts(new_pull, other_pull, lists) ==
    (IF lists.overlaps # <<>>
     THEN <<Conflict(ExistingChange, new_pull.number, other_pull.number,
                     other_pull.html_url, lists.overlaps)>>
     ELSE <<>>)
    \o
    (IF lists.originals # <<>>
     THEN <<Conflict(NewOriginalChange, other_pull.number, new_pull.number,
                     new_pull.html_url, lists.originals)>>
     ELSE <<>>)
    \o
    (IF lists.translations # <<>>
     THEN <<Conflict(ExistingOriginalChange, new_pull.number, other_pull.number,
                     other_pull.html_url, lists.translations)>>
     ELSE <<>>)

\* The lists collected by the two nested loops, or Panic.
CollectLists(new_pull, other_pull) ==
    OuterLoop(EmptyLists, MdFiles(new_pull.diff.some), MdFiles(other_pull.diff.some))

\* Mutant: an absent diff is taken for an empty one.
compare_pulls_AbsentIsEmpty(new_pull, other_pull) ==
    IF new_pull.diff = None \/ other_pull.diff = None THEN Some(<<>>)
    ELSE LET lists == CollectLists(new_pull, other_pull)
         IN  IF IsPanic(lists) THEN Panic
             ELSE Some(SortConflicts(EmitConflicts(new_pull, other_pull, SortLists(lists))))

\* compare_pulls: Panic when a diff is absent (Option::unwrap) or a path
\* does not parse, Some(the sorted conflicts) otherwise.
compare_pulls(new_pull, other_pull) ==
    IF new_pull.diff = None \/ other_pull.diff = None THEN Panic
    ELSE LET lists == CollectLists(new_pull, other_pull)
         IN  IF IsPanic(lists) THEN Panic
             ELSE Some(SortConflicts(EmitConflicts(new_pull, other_pull, SortLists(lists))))

(***************************************************************************)
(* The GitHub client: token cache, installation registry, remote.          *)
(***************************************************************************)
Procs == 1..NumProcs

Tenants == 1..NumTenants

\* full_name of the repositories operations are called for.
Repos == {"o/r1", "o/r2"}

\* The repository lists the remote answers GET /installation/repositories
\* with: an installation covers one of the two repositories.
RepoLists == {{"o/r1"}, {"o/r2"}}

\* The lists the remote answers GET /app/installations with: installations
\* of the app, each once, in any order.
InstallationLists ==
    {items \in UNION {[1..n -> Tenants] : n \in 0..NumTenants} :
       \A i, j \in DOMAIN items : i # j => items[i] # items[j]}

\* enum TokenType
JWT == [kind |-> "JWT"]

Installation(id) == [kind |-> "Installation", id |-> id]

TokenTypes == {JWT} \cup {Installation(id) : id \in Tenants}

\* The two Arc<Mutex<..>> fields of the Client.
Mutexes == {"tokens", "installations"}

\* Minutes: Claims::new and get_installation_token
JwtBackdate == 1
JwtLifetime == 7
ExpiryMargin == 5

\* Lifetimes (minutes) the remote gives an installation token.
RemoteLifetimes == {7}

Ok(v) == [ok |-> v]

Err(e) == [err |-> e]

IsOk(r) == "ok" \in DOMAIN r

Unit == [unit |-> TRUE]

VARIABLES
    now,            \* chrono::Utc::now(), in minutes
    tokens,         \* Client.tokens: TokenType -> Option<Token>
    installations,  \* Client.installations: id -> Option<repositories>
    task,           \* per task: position in the running operation and its locals
    serial,         \* remote: installation tokens issued so far
    calls,          \* operations started so far
    evicted,        \* history: per tenant, the token value remove_installation evicted last
    quiet,          \* history: per tenant, removed and no request for it started since
    locked,         \* per Mutex of the Client: the task that holds its guard, if any
    new_pull,       \* compare_pulls: first argument
    other_pull,     \* compare_pulls: second argument
    conflicts,      \* compare_pulls: None before the call, Some(result) after
    path_arg,       \* Article::from_file_path: its argument s
    article         \* Article::from_file_path: None before the call, Some(result) after

vars == <<now, tokens, installations, task, serial, calls, evicted, quiet, locked,
          new_pull, other_pull, conflicts, path_arg, article>>

clientVars == <<now, tokens, installations, task, serial, calls, evicted, quiet, locked>>

compareVars == <<new_pull, other_pull, conflicts, path_arg, article>>

\* struct Token is modelled by the fields the code reads: t and expires_at
\* (ttype is the cache key, created_at is only written).

\* Token::expired, as written: true while the expiry lies ahead.
expired(tt, at) == at < tt.expires_at

\* Client::cached_token, evaluated on cache content c at time at.
cached_token(c, ttype, at) ==
    IF c[ttype] # None /\ ~expired(c[ttype].some, at)
    THEN Some(c[ttype].some.t)
    ELSE None

\* Claims::new + Client::generate_jwt: RS256 signs the claims, so the value
\* is determined by (iat, exp); iss and the key are fixed.
generate_jwt(at) ==
    [t |-> [iat |-> at - JwtBackdate, exp |-> at + JwtLifetime],
     expires_at |-> at + JwtLifetime]

\* The Token get_installation_token builds from the remote's response.
installation_token(response, at) ==
    [t |-> response.token,
     expires_at |-> response.expires_at - ExpiryMargin]

IdleTask ==
    [pc |-> "idle", op |-> "none", repo |-> None, iid |-> None,
     jwt |-> None, token |-> None, response |-> None, ret |-> None,
     page |-> 0, out |-> <<>>, generated |-> None, pending |-> <<>>,
     answer |-> None]

InstallationOps == {"get_installation_token", "add_installation", "remove_installation"}

RepoOps == {"pick_token", "pulls", "post_comment", "read_pull_diff"}

\* installations and discover_installations: the operations of the app itself.
AppOps == {"installations", "discover_installations"}

Ops == {"get_jwt_token"} \cup InstallationOps \cup RepoOps \cup AppOps

\* The operations on the token cache and the registry alone.
CredentialOps == {"get_jwt_token", "pick_token"} \cup InstallationOps

FirstPc(o) ==
    CASE o \in {"get_jwt_token"} \cup AppOps -> "jwt_check"
      [] o \in {"get_installation_token", "add_installation"} -> "inst_check"
      [] o = "remove_installation" -> "rm_registry"
      [] o \in RepoOps -> "resolve"

Finished(t) == t.pc \in {"idle", "done"}

\* A task returns r: its locals are dropped.
Return(t, r) ==
    [t EXCEPT !.pc = "done", !.ret = Some(r), !.jwt = None, !.token = None,
              !.response = None, !.page = 0, !.out = <<>>,
              !.generated = None, !.pending = <<>>]

ClientInit ==
    /\ now = 0
    /\ tokens = [k \in TokenTypes |-> None]
    /\ installations = [i \in Tenants |-> None]
    /\ task = [p \in Procs |-> IdleTask]
    /\ serial = 0
    /\ calls = 0
    /\ evicted = [i \in Tenants |-> None]
    /\ quiet = [i \in Tenants |-> FALSE]
    /\ locked = [m \in Mutexes |-> None]

ArticleIdle ==
    /\ path_arg = <<>>
    /\ article = None

PullsIdle ==
    /\ new_pull = [number |-> 1, html_url |-> PullUrl(1), diff |-> None]
    /\ other_pull = [number |-> 1, html_url |-> PullUrl(1), diff |-> None]
    /\ conflicts = None

CompareIdle == PullsIdle /\ ArticleIdle

Init == ClientInit /\ CompareIdle

\* The clock advances.
Tick ==
    /\ now + ClockStep <= MaxTime
    /\ now' = now + ClockStep
    /\ UNCHANGED <<tokens, installations, task, serial, calls, evicted, quiet, compareVars, locked>>

\* A task starts one of the operations ops of the Client, while fewer than
\* budget operations have been started.
CallOf(p, ops, budget) ==
    /\ Finished(task[p])
    /\ calls < budget
    /\ calls' = calls + 1
    /\ \E o \in ops :
         \/ /\ o \in {"get_jwt_token"} \cup AppOps
            /\ task' = [task EXCEPT ![p] = [IdleTask EXCEPT !.pc = FirstPc(o), !.op = o]]
            /\ quiet' = quiet
         \/ /\ o \in InstallationOps
            /\ \E i \in Tenants :
                 /\ task' = [task EXCEPT ![p] =
                               [IdleTask EXCEPT !.pc = FirstPc(o), !.op = o, !.iid = Some(i)]]
                 /\ quiet' = IF o = "remove_installation" THEN quiet
                             ELSE [quiet EXCEPT ![i] = FALSE]
         \/ /\ o \in RepoOps
            /\ \E r \in Repos :
                 task' = [task EXCEPT ![p] =
                            [IdleTask EXCEPT !.pc = FirstPc(o), !.op = o, !.repo = Some(r)]]
            /\ quiet' = quiet
    /\ UNCHANGED <<now, tokens, installations, serial, evicted, compareVars, locked>>

\* The statement at which a task stands takes the guard of this Mutex:
\* cached_token binds it for the function body, insert and remove take it for
\* one statement, pick_token for its for loop.
SectionLock(pc) ==
    IF pc \in {"registry_insert", "rm_registry", "resolve"} THEN "installations"
    ELSE "tokens"

SectionPcs ==
    {"jwt_check", "jwt_insert", "inst_check", "inst_insert", "rm_token",
     "registry_insert", "rm_registry", "resolve"}

Holds(p, m) == locked[m] = Some(p)

\* Mutant: the guard is kept past the end of its statement.
Unlock_Leaked(p, m) == locked' = locked

\* The guard is dropped where its statement (or function body) ends.
Unlock(p, m) == locked' = [locked EXCEPT ![m] = None]

\* lock().unwrap(): the task gets the guard once no task holds it.
Lock(p) ==
    LET t == task[p]
        m == SectionLock(t.pc)
    IN  /\ t.pc \in SectionPcs
        /\ locked[m] = None
        /\ locked' = [locked EXCEPT ![m] = Some(p)]
        /\ UNCHANGED <<now, tokens, installations, task, serial, calls, evicted, quiet, compareVars>>

\* The failures of a request that __json and __text hand to throw_error: the
\* request is not answered, the answer has an error status, the body of the
\* answer does not decode.
RemoteFailures == {"transport", "status", "decode"}

\* reqwest::Error::url(): the error of a body that does not decode names no
\* URL.
HasUrl(f) == f # "decode"

\* throw_error: log::error! evaluates e.url().unwrap() when the error level
\* is enabled, and panics on an error without URL; else Err(e.into()).
throw_error(f, log_enabled) ==
    IF log_enabled /\ ~HasUrl(f) THEN Panic ELSE Err("remote")

\* The task after the failure f of its request: `?` returns what throw_error
\* returns, a panic ends the task. answer keeps what the remote answered.
Failed(t, f, log_enabled) ==
    Return([t EXCEPT !.answer = Some(f)], throw_error(f, log_enabled))

\* Where a task goes once get_jwt_token has the value v: back to its caller,
\* which is installations() as long as discover_installations has no
\* installation at hand, and get_installation_token otherwise.
AfterJwt(t, v) ==
    CASE t.op = "get_jwt_token" -> Return(t, Ok(v))
      [] t.op \in AppOps /\ t.iid = None ->
           [t EXCEPT !.pc = "list_installations", !.jwt = Some(v)]
      [] OTHER -> [t EXCEPT !.pc = "exchange", !.jwt = Some(v)]

\* Where a task goes once get_installation_token has the value v.
AfterInstallationToken(t, v) ==
    CASE t.op \in {"get_installation_token", "pick_token"} -> Return(t, Ok(v))
      [] t.op \in {"add_installation", "discover_installations"} ->
           [t EXCEPT !.pc = "list_repos", !.token = Some(v)]
      [] t.op = "pulls" -> [t EXCEPT !.pc = "pulls_page", !.token = Some(v), !.page = 1]
      [] t.op = "post_comment" -> [t EXCEPT !.pc = "post", !.token = Some(v)]
      [] t.op = "read_pull_diff" -> [t EXCEPT !.pc = "diff", !.token = Some(v)]

\* get_jwt_token: self.cached_token(&TokenType::JWT)
CachedTokenJwt(p) ==
    LET t == task[p]
        c == cached_token(tokens, JWT, now)
    IN  /\ t.pc = "jwt_check"
        /\ Holds(p, "tokens")
        /\ task' = [task EXCEPT ![p] =
                      IF c # None THEN AfterJwt(t, c.some)
                      ELSE [t EXCEPT !.pc = "jwt_mint"]]
        /\ Unlock(p, "tokens")
        /\ UNCHANGED <<now, tokens, installations, serial, calls, evicted, quiet, compareVars>>

\* get_jwt_token, the None arm: let token = self.generate_jwt(), which reads
\* the clock; no guard is held.
GenerateJwt(p) ==
    LET t == task[p]
    IN  /\ t.pc = "jwt_mint"
        /\ task' = [task EXCEPT ![p] =
                      [t EXCEPT !.pc = "jwt_insert", !.generated = Some(generate_jwt(now))]]
        /\ UNCHANGED <<now, tokens, installations, serial, calls, evicted, quiet, compareVars, locked>>

\* get_jwt_token, the None arm: insert the generated Token and return its value.
InsertJwt(p) ==
    LET t == task[p]
        token == t.generated.some
    IN  /\ t.pc = "jwt_insert"
        /\ Holds(p, "tokens")
        /\ tokens' = [tokens EXCEPT ![JWT] = Some(token)]
        /\ task' = [task EXCEPT ![p] =
                      AfterJwt([t EXCEPT !.generated = None], token.t)]
        /\ Unlock(p, "tokens")
        /\ UNCHANGED <<now, installations, serial, calls, evicted, quiet, compareVars>>

\* get_installation_token: self.cached_token(&ttype)
CachedTokenInstallation(p) ==
    LET t == task[p]
        ttype == Installation(t.iid.some)
        c == cached_token(tokens, ttype, now)
    IN  /\ t.pc = "inst_check"
        /\ Holds(p, "tokens")
        /\ task' = [task EXCEPT ![p] =
                      IF c # None THEN AfterInstallationToken(t, c.some)
                      ELSE [t EXCEPT !.pc = "jwt_check"]]
        /\ Unlock(p, "tokens")
        /\ UNCHANGED <<now, tokens, installations, serial, calls, evicted, quiet, compareVars>>

\* The remote answers the token exchange, POST .../app/installations/{id}/
\* access_tokens, with a new token issued to that installation.
ExchangeOk(p) ==
    LET t == task[p]
    IN  /\ t.pc = "exchange"
        /\ serial < MaxMints
        /\ serial' = serial + 1
        /\ \E life \in RemoteLifetimes :
             task' = [task EXCEPT ![p] =
                        [t EXCEPT !.pc = "inst_insert",
                                  !.response = Some([token |-> [serial |-> serial + 1,
                                                               installation |-> t.iid.some],
                                                     expires_at |-> now + life])]]
        /\ UNCHANGED <<now, tokens, installations, calls, evicted, quiet, compareVars, locked>>

\* The exchange fails (transport error, error status, bad body): throw_error,
\* and `?` returns its error.
ExchangeFail(p) ==
    LET t == task[p]
    IN  /\ t.pc = "exchange"
        /\ \E f \in RemoteFailures, log_enabled \in BOOLEAN :
             task' = [task EXCEPT ![p] = Failed(t, f, log_enabled)]
        /\ UNCHANGED <<now, tokens, installations, serial, calls, evicted, quiet, compareVars, locked>>

\* Mutant: the insert keeps an entry that is already there.
InsertInstallationToken_KeepFirst(p) ==
    LET t == task[p]
        token == installation_token(t.response.some, now)
        ttype == Installation(t.iid.some)
    IN  /\ t.pc = "inst_insert"
        /\ Holds(p, "tokens")
        /\ tokens' = IF tokens[ttype] # None THEN tokens
                      ELSE [tokens EXCEPT ![ttype] = Some(token)]
        /\ task' = [task EXCEPT ![p] =
                      AfterInstallationToken([t EXCEPT !.response = None], token.t)]
        /\ Unlock(p, "tokens")
        /\ UNCHANGED <<now, installations, serial, calls, evicted, quiet, compareVars>>

\* get_installation_token: build the Token and insert it.
InsertInstallationToken(p) ==
    LET t == task[p]
        token == installation_token(t.response.some, now)
    IN  /\ t.pc = "inst_insert"
        /\ Holds(p, "tokens")
        /\ tokens' = [tokens EXCEPT ![Installation(t.iid.some)] = Some(token)]
        /\ task' = [task EXCEPT ![p] =
                      AfterInstallationToken([t EXCEPT !.response = None], token.t)]
        /\ Unlock(p, "tokens")
        /\ UNCHANGED <<now, installations, serial, calls, evicted, quiet, compareVars>>

\* add_installation: the remote lists the installation's repositories.
ListReposOk(p) ==
    LET t == task[p]
    IN  /\ t.pc = "list_repos"
        /\ \E rs \in RepoLists :
             task' = [task EXCEPT ![p] =
                        [t EXCEPT !.pc = "registry_insert",
                                  !.token = None,
                                  !.response = Some([repositories |-> rs])]]
        /\ UNCHANGED <<now, tokens, installations, serial, calls, evicted, quiet, compareVars, locked>>

\* add_installation: the listing fails: throw_error.
ListReposFail(p) ==
    LET t == task[p]
    IN  /\ t.pc = "list_repos"
        /\ \E f \in RemoteFailures, log_enabled \in BOOLEAN :
             task' = [task EXCEPT ![p] = Failed(t, f, log_enabled)]
        /\ UNCHANGED <<now, tokens, installations, serial, calls, evicted, quiet, compareVars, locked>>

\* discover_installations: the for loop over the installations that are left,
\* add_installation(installation).await for the next one, Ok(()) after the last.
NextInstallation(t, left) ==
    IF left = <<>> THEN Return(t, Ok(Unit))
    ELSE [t EXCEPT !.pc = FirstPc("add_installation"), !.iid = Some(Head(left)),
                   !.pending = Tail(left), !.jwt = None, !.token = None,
                   !.response = None]

\* The tenant for which NextInstallation starts a request, if any.
StartsRequest(qt, left) ==
    IF left = <<>> THEN qt ELSE [qt EXCEPT ![Head(left)] = FALSE]

\* installations(): the remote answers GET /app/installations with a list
\* that parses; discover_installations goes on with the loop. The
\* add_installation calls of the loop are operations started and count
\* towards budget, so the list is one whose loop fits into it.
ListInstallationsOk(p, budget) ==
    LET t == task[p]
    IN  /\ t.pc = "list_installations"
        /\ \E items \in InstallationLists :
             IF t.op = "installations"
             THEN /\ task' = [task EXCEPT ![p] = Return(t, Ok([items |-> items]))]
                  /\ quiet' = quiet
                  /\ calls' = calls
             ELSE /\ calls + Len(items) <= budget
                  /\ task' = [task EXCEPT ![p] = NextInstallation(t, items)]
                  /\ quiet' = StartsRequest(quiet, items)
                  /\ calls' = calls + Len(items)
        /\ UNCHANGED <<now, tokens, installations, serial, evicted, compareVars, locked>>

\* installations(): the answer does not parse as a list (error_for_status is
\* not called, so this is also what an error status ends as): body.json()
\* fails and `?` returns it; discover_installations takes it for no
\* installations and returns Ok(()).
ListInstallationsBadBody(p) ==
    LET t == task[p]
    IN  /\ t.pc = "list_installations"
        /\ task' = [task EXCEPT ![p] =
                      IF t.op = "installations" THEN Return(t, Err("parse"))
                      ELSE Return(t, Ok(Unit))]
        /\ UNCHANGED <<now, tokens, installations, serial, calls, evicted, quiet, compareVars, locked>>

\* installations(): the request fails in transport: pp.await.unwrap() panics,
\* in installations and in discover_installations alike.
ListInstallationsPanic(p) ==
    LET t == task[p]
    IN  /\ t.pc = "list_installations"
        /\ task' = [task EXCEPT ![p] = Return(t, Panic)]
        /\ UNCHANGED <<now, tokens, installations, serial, calls, evicted, quiet, compareVars, locked>>

\* add_installation: self.installations.lock().unwrap().insert(..)
RegistryInsert(p) ==
    LET t == task[p]
    IN  /\ t.pc = "registry_insert"
        /\ Holds(p, "installations")
        /\ installations' = [installations EXCEPT ![t.iid.some] =
                               Some(t.response.some.repositories)]
        /\ task' = [task EXCEPT ![p] =
                      IF t.op = "discover_installations"
                      THEN NextInstallation(t, t.pending)
                      ELSE Return(t, Ok(Unit))]
        /\ quiet' = IF t.op = "discover_installations"
                    THEN StartsRequest(quiet, t.pending) ELSE quiet
        /\ Unlock(p, "installations")
        /\ UNCHANGED <<now, tokens, serial, calls, evicted, compareVars>>

\* remove_installation, first statement: remove from the registry.
RemoveFromRegistry(p) ==
    LET t == task[p]
    IN  /\ t.pc = "rm_registry"
        /\ Holds(p, "installations")
        /\ installations' = [installations EXCEPT ![t.iid.some] = None]
        /\ task' = [task EXCEPT ![p] = [t EXCEPT !.pc = "rm_token"]]
        /\ Unlock(p, "installations")
        /\ UNCHANGED <<now, tokens, serial, calls, evicted, quiet, compareVars>>

\* Mutant: remove_installation forgets the token cache.
RemoveToken_Forgotten(c, id) == c

\* The cache after remove(&TokenType::Installation(id)).
RemoveToken(c, id) == [c EXCEPT ![Installation(id)] = None]

\* remove_installation, second statement: remove from the token cache.
RemoveFromCache(p) ==
    LET t == task[p]
        id == t.iid.some
    IN  /\ t.pc = "rm_token"
        /\ Holds(p, "tokens")
        /\ tokens' = RemoveToken(tokens, id)
        /\ evicted' = [evicted EXCEPT ![id] =
                         IF tokens[Installation(id)] = None THEN None
                         ELSE Some(tokens[Installation(id)].some.t)]
        /\ quiet' = [quiet EXCEPT ![id] = TRUE]
        /\ task' = [task EXCEPT ![p] = Return(t, Ok(Unit))]
        /\ Unlock(p, "tokens")
        /\ UNCHANGED <<now, installations, serial, calls, compareVars>>

\* Mutant: pick_token takes any registered installation.
Matches_AnyInstallation(reg, full_repo_name) == {i \in Tenants : reg[i] # None}

\* Mutant: the closure of pick_token tests != instead of ==.
Matches_Mismatch(reg, full_repo_name) ==
    {i \in Tenants : reg[i] # None /\ full_repo_name \notin reg[i].some}

\* The installations whose repository list names full_repo_name.
Matches(reg, full_repo_name) ==
    {i \in Tenants : reg[i] # None /\ full_repo_name \in reg[i].some}

\* pick_token: scan the registry (HashMap order: any match may come first),
\* bail when nothing matches.
ResolveInstallation(p) ==
    LET t == task[p]
        found == Matches(installations, t.repo.some)
    IN  /\ t.pc = "resolve"
        /\ Holds(p, "installations")
        /\ \/ /\ found = {}
              /\ task' = [task EXCEPT ![p] = Return(t, Err("no token"))]
              /\ quiet' = quiet
           \/ \E i \in found :
                /\ task' = [task EXCEPT ![p] = [t EXCEPT !.pc = "inst_check", !.iid = Some(i)]]
                /\ quiet' = [quiet EXCEPT ![i] = FALSE]
        /\ Unlock(p, "installations")
        /\ UNCHANGED <<now, tokens, installations, serial, calls, evicted, compareVars>>

\* for page in 1..100
PageEnd == 100

\* pulls: the remote returns a non-empty page.
PullsPageFull(p) ==
    LET t == task[p]
        u == [t EXCEPT !.out = Append(@, t.page), !.page = @ + 1,
                       !.answer = Some("page")]
    IN  /\ t.pc = "pulls_page"
        /\ t.page <= MaxPages
        /\ task' = [task EXCEPT ![p] =
                      IF u.page < PageEnd THEN u ELSE Return(u, Ok([pulls |-> u.out]))]
        /\ UNCHANGED <<now, tokens, installations, serial, calls, evicted, quiet, compareVars, locked>>

\* Mutant: an empty page does not end the loop.
PullsPageEmpty_NoBreak(p) ==
    LET t == task[p]
        u == [t EXCEPT !.page = @ + 1, !.answer = Some("empty")]
    IN  /\ t.pc = "pulls_page"
        /\ task' = [task EXCEPT ![p] =
                      IF u.page < PageEnd THEN u ELSE Return(u, Ok([pulls |-> u.out]))]
        /\ UNCHANGED <<now, tokens, installations, serial, calls, evicted, quiet, compareVars, locked>>

\* pulls: the remote returns an empty page: break.
PullsPageEmpty(p) ==
    LET t == task[p]
    IN  /\ t.pc = "pulls_page"
        /\ task' = [task EXCEPT ![p] =
                      Return([t EXCEPT !.answer = Some("empty")], Ok([pulls |-> t.out]))]
        /\ UNCHANGED <<now, tokens, installations, serial, calls, evicted, quiet, compareVars, locked>>

\* pulls: the request for the page fails: throw_error, and `?` returns its
\* error without the pages received so far.
PullsPageFail(p) ==
    LET t == task[p]
    IN  /\ t.pc = "pulls_page"
        /\ \E f \in RemoteFailures, log_enabled \in BOOLEAN :
             task' = [task EXCEPT ![p] = Failed(t, f, log_enabled)]
        /\ UNCHANGED <<now, tokens, installations, serial, calls, evicted, quiet, compareVars, locked>>

\* post_comment: the POST and its outcome.
PostComment(p) ==
    LET t == task[p]
    IN  /\ t.pc = "post"
        /\ \/ task' = [task EXCEPT ![p] = Return([t EXCEPT !.answer = Some("ok")], Ok(Unit))]
           \/ \E f \in RemoteFailures, log_enabled \in BOOLEAN :
                task' = [task EXCEPT ![p] = Failed(t, f, log_enabled)]
        /\ UNCHANGED <<now, tokens, installations, serial, calls, evicted, quiet, compareVars, locked>>

\* read_pull_diff: the GET, then PatchSet::from_str on the text.
ReadPullDiff(p) ==
    LET t == task[p]
    IN  /\ t.pc = "diff"
        /\ \/ \E r \in {Ok([diff |-> TRUE]), Err("parse")} :
                task' = [task EXCEPT ![p] = Return([t EXCEPT !.answer = Some("ok")], r)]
           \/ \E f \in RemoteFailures, log_enabled \in BOOLEAN :
                task' = [task EXCEPT ![p] = Failed(t, f, log_enabled)]
        /\ UNCHANGED <<now, tokens, installations, serial, calls, evicted, quiet, compareVars, locked>>

Call(p) == CallOf(p, Ops, MaxSeqCalls)

CallCredential(p) == CallOf(p, CredentialOps, MaxCalls)

\* One step of a task that uses the credential operations only.
CredentialStep(p) ==
    \/ CallCredential(p)
    \/ Lock(p)
    \/ CachedTokenJwt(p)
    \/ GenerateJwt(p)
    \/ InsertJwt(p)
    \/ CachedTokenInstallation(p)
    \/ ExchangeOk(p)
    \/ ExchangeFail(p)
    \/ InsertInstallationToken(p)
    \/ ListReposOk(p)
    \/ ListReposFail(p)
    \/ RegistryInsert(p)
    \/ RemoveFromRegistry(p)
    \/ RemoveFromCache(p)
    \/ ResolveInstallation(p)

\* One step of a task that uses any operation.
Step(p) ==
    \/ Call(p)
    \/ Lock(p)
    \/ CachedTokenJwt(p)
    \/ GenerateJwt(p)
    \/ InsertJwt(p)
    \/ CachedTokenInstallation(p)
    \/ ExchangeOk(p)
    \/ ExchangeFail(p)
    \/ InsertInstallationToken(p)
    \/ ListReposOk(p)
    \/ ListReposFail(p)
    \/ ListInstallationsOk(p, MaxSeqCalls)
    \/ ListInstallationsBadBody(p)
    \/ ListInstallationsPanic(p)
    \/ RegistryInsert(p)
    \/ RemoveFromRegistry(p)
    \/ RemoveFromCache(p)
    \/ ResolveInstallation(p)
    \/ PullsPageFull(p)
    \/ PullsPageEmpty(p)
    \/ PullsPageFail(p)
    \/ PostComment(p)
    \/ ReadPullDiff(p)

\* Tasks run the credential operations concurrently on one Client.
Next == Tick \/ \E p \in Procs : CredentialStep(p)

Spec == Init /\ [][Next]_vars

\* One task calls the Client's operations one after another.
NextSeq == Tick \/ Step(1)

SpecSeq == Init /\ [][NextSeq]_vars

CallConcurrent(p) == CallOf(p, Ops, MaxCalls)

\* One step of a task that runs any operation next to other tasks.
ConcurrentStep(p) ==
    \/ CallConcurrent(p)
    \/ Lock(p)
    \/ CachedTokenJwt(p)
    \/ GenerateJwt(p)
    \/ InsertJwt(p)
    \/ CachedTokenInstallation(p)
    \/ ExchangeOk(p)
    \/ ExchangeFail(p)
    \/ InsertInstallationToken(p)
    \/ ListReposOk(p)
    \/ ListReposFail(p)
    \/ ListInstallationsOk(p, MaxCalls)
    \/ ListInstallationsBadBody(p)
    \/ ListInstallationsPanic(p)
    \/ RegistryInsert(p)
    \/ RemoveFromRegistry(p)
    \/ RemoveFromCache(p)
    \/ ResolveInstallation(p)
    \/ PullsPageFull(p)
    \/ PullsPageEmpty(p)
    \/ PullsPageFail(p)
    \/ PostComment(p)
    \/ ReadPullDiff(p)

\* Tasks run all the operations of one Client concurrently.
NextConcurrent == Tick \/ \E p \in Procs : ConcurrentStep(p)

SpecConcurrent == Init /\ [][NextConcurrent]_vars

\* Tasks call get_installation_token concurrently on an empty cache, and the
\* remote answers every exchange with a token.
CallMint(p) == CallOf(p, {"get_installation_token"}, MaxCalls)

MintStep(p) ==
    \/ CallMint(p)
    \/ Lock(p)
    \/ CachedTokenInstallation(p)
    \/ CachedTokenJwt(p)
    \/ GenerateJwt(p)
    \/ InsertJwt(p)
    \/ ExchangeOk(p)
    \/ InsertInstallationToken(p)

NextMint == Tick \/ \E p \in Procs : MintStep(p)

SpecMint == Init /\ [][NextMint]_vars

(***************************************************************************)
(* compare_pulls applied to a pair of pull requests.                       *)
(***************************************************************************)
CompareInit ==
    /\ ClientInit
    /\ new_pull \in PullRequests
    /\ other_pull \in PullRequests
    /\ conflicts = None
    /\ ArticleIdle

Compare ==
    /\ conflicts = None
    /\ conflicts' = Some(compare_pulls(new_pull, other_pull))
    /\ UNCHANGED <<new_pull, other_pull, path_arg, article, clientVars>>

SpecCompare == CompareInit /\ [][Compare]_vars

(***************************************************************************)
(* Article::from_file_path applied to a file path.                         *)
(***************************************************************************)
\* The pieces file paths are made of.
PathTokens == {<<"g">>, <<"/">>, En, <<"e", "s">>, DotMd, DotDot}

RECURSIVE Flatten(_)
Flatten(ts) == IF ts = <<>> THEN <<>> ELSE Head(ts) \o Flatten(Tail(ts))

\* The strings of n pieces.
PathArgs(n) == {Flatten(ts) : ts \in [1..n -> PathTokens]}

ArticleInit ==
    /\ ClientInit
    /\ PullsIdle
    /\ \E n \in 0..MaxTokens : path_arg \in PathArgs(n)
    /\ article = None

Parse ==
    /\ article = None
    /\ article' = Some(from_file_path(path_arg))
    /\ UNCHANGED <<path_arg, new_pull, other_pull, conflicts, clientVars>>

SpecArticle == ArticleInit /\ [][Parse]_vars

(***************************************************************************)
(* Properties of the token cache and the registry.                         *)
(***************************************************************************)
\* Task p takes a step.
Moves(p) == task'[p] # task[p]

\* The cache holds a token for ttype and the clock is strictly before its
\* expires_at.
InWindow(ttype) == tokens[ttype] # None /\ now < tokens[ttype].some.expires_at

\* The cache holds a token for ttype whose expires_at has been reached.
PastExpiry(ttype) == tokens[ttype] # None /\ now >= tokens[ttype].some.expires_at

\* The token request of task t ended with value v: returned to the caller
\* of the Client, or handed to the operation that asked for it.
Yields(t, v) == t.ret = Some(Ok(v)) \/ t.jwt = Some(v) \/ t.token = Some(v)

\* The token request of task t went on to regenerate the token.
Regenerates(t) == t.pc \in {"jwt_check", "jwt_mint"} /\ t.ret = None

\* C1: a token request made while the cache holds an entry of that kind and
\* the clock is strictly before its expires_at ends with the cached value,
\* without minting and without changing the cache.
C1_WithinWindowReturnsCached ==
    [][\A p \in Procs :
         /\ (task[p].pc = "jwt_check" /\ Moves(p) /\ InWindow(JWT))
              => /\ Yields(task'[p], tokens[JWT].some.t)
                 /\ tokens' = tokens
         /\ (task[p].pc = "inst_check" /\ Moves(p)
               /\ InWindow(Installation(task[p].iid.some)))
              => /\ Yields(task'[p], tokens[Installation(task[p].iid.some)].some.t)
                 /\ tokens' = tokens /\ serial' = serial]_vars

\* C2: a token request made when the cached entry's expires_at has been
\* reached does not end with the cached value: it goes on to regenerate.
C2_PastExpiryRegenerates ==
    [][\A p \in Procs :
         /\ (task[p].pc = "jwt_check" /\ Moves(p) /\ PastExpiry(JWT))
              => Regenerates(task'[p])
         /\ (task[p].pc = "inst_check" /\ Moves(p)
               /\ PastExpiry(Installation(task[p].iid.some)))
              => Regenerates(task'[p])]_vars

\* Task p has returned from operation o.
Returned(p, o) == task[p].pc = "done" /\ task[p].op = o

C3_Evicted ==
    \A p \in Procs :
      Returned(p, "remove_installation")
        => /\ installations[task[p].iid.some] = None
           /\ tokens[Installation(task[p].iid.some)] = None

C3_NotReused ==
    \A p \in Procs :
      (/\ Returned(p, "get_installation_token")
       /\ IsOk(task[p].ret.some)
       /\ evicted[task[p].iid.some] # None)
        => task[p].ret.some.ok # evicted[task[p].iid.some].some

C3_Frame ==
    \A p \in Procs :
      (task[p].pc \in {"rm_registry", "rm_token"} /\ Moves(p))
        => /\ \A k \in TokenTypes \ {Installation(task[p].iid.some)} : tokens'[k] = tokens[k]
           /\ \A i \in Tenants \ {task[p].iid.some} : installations'[i] = installations[i]

C3_MissExchanges ==
    \A p \in Procs :
      (/\ task[p].pc = "inst_check" /\ Moves(p)
       /\ tokens[Installation(task[p].iid.some)] = None)
        => Regenerates(task'[p])

\* C3: in a sequential run, once remove_installation(t) has returned the
\* registry and the token cache hold nothing for t; the removal changes no
\* other entry; a later get_installation_token(t) finds no entry, goes to the
\* remote, and never returns the evicted value.
C3_RemoveEvictsToken ==
    /\ [](C3_Evicted /\ C3_NotReused)
    /\ [][C3_Frame /\ C3_MissExchanges]_vars

\* A token was evicted for a tenant, and a later get_installation_token for
\* that tenant has returned a token, other entries being in the cache.
C3_Witness ==
    \E p \in Procs :
      /\ Returned(p, "get_installation_token")
      /\ IsOk(task[p].ret.some)
      /\ evicted[task[p].iid.some] # None
      /\ tokens[JWT] # None

\* C4: once remove_installation(t) has returned and every request for t has
\* finished, none for t having started after the removal, the cache holds no
\* entry for Installation(t).
C4_NoEntryAfterRemoval ==
    \A i \in Tenants :
      (/\ quiet[i]
       /\ \A p \in Procs : Finished(task[p]) \/ task[p].iid # Some(i))
        => tokens[Installation(i)] = None

\* No installation in the registry lists repository r.
Unlisted(r) == \A i \in Tenants : installations[i] = None \/ r \notin installations[i].some

C10_BailsAtOnce ==
    \A p \in Procs :
      (task[p].pc = "resolve" /\ Moves(p) /\ Unlisted(task[p].repo.some))
        => /\ task'[p].pc = "done"
           /\ task'[p].ret = Some(Err("no token"))
           /\ tokens' = tokens
           /\ installations' = installations
           /\ serial' = serial

C10_NeverSucceeds ==
    \A p \in Procs :
      (task[p].pc = "done" /\ task[p].op \in RepoOps /\ task[p].iid = None)
        => task[p].ret = Some(Err("no token"))

\* C10: when no registered installation lists the repository, pick_token and
\* the operations built on it return an error in the step that scans the
\* registry: no request is sent, no token issued, and the cache and the
\* registry stay as they were.
C10_NoCredentialsIsAnError ==
    /\ []C10_NeverSucceeds
    /\ [][C10_BailsAtOnce]_vars

\* pulls has failed for a repository no installation lists, while an
\* installation is registered.
C10_Witness ==
    \E p \in Procs :
      /\ Returned(p, "pulls")
      /\ task[p].ret = Some(Err("no token"))
      /\ Unlisted(task[p].repo.some)
      /\ \E i \in Tenants : installations[i] # None

(***************************************************************************)
(* Properties of compare_pulls.                                            *)
(***************************************************************************)
\* Article directories and languages of the paths in Paths.
Dirs == {<<"g">>, <<"w">>}

Es == <<"e", "s">>

Fr == <<"f", "r">>

Translations == {Es, Fr}

\* d/xx.md
ArticlePath(d, xx) == d \o <<"/">> \o xx \o DotMd

\* The diff of pull lists the file at path.
Changes(pull, path) ==
    pull.diff # None /\ \E i \in 1..Len(pull.diff.some) : pull.diff.some[i] = PatchedFile(path)

\* compare_pulls has run and returned a list.
Compared == conflicts # None /\ ~IsPanic(conflicts.some)

\* The conflicts returned.
Out == conflicts.some.some

OutOfKind(kind) == {i \in 1..Len(Out) : Out[i].kind = kind}

\* The .md paths a pull changes, as its diff names them.
MdPaths(pull) == {p \in Paths : Changes(pull, p) /\ EndsWith(p, DotMd)}

\* The directory part of a path: what precedes its last slash.
DirOf(p) == SubSeq(p, 1, LastIndexOf(p, "/") - 1)

\* The language part of a path d/xx.md.
LangOf(p) == SubSeq(p, LastIndexOf(p, "/") + 1, Len(p) - Len(DotMd))

\* The originals new_pull changes for which other_pull changes a translation
\* of the same article, as recorded: directory, "/", "en.md".
RecordedOriginals ==
    {DirOf(p) \o <<"/">> \o En \o DotMd :
        p \in {q \in MdPaths(new_pull) :
                 /\ LangOf(q) = En
                 /\ \E r \in MdPaths(other_pull) : DirOf(r) = DirOf(q) /\ LangOf(r) # En}}

\* C5: when new changes d/en.md and other changes a translation d/xx.md,
\* the result has a NewOriginalChange with trigger = other.number,
\* original = new.number, reference_url = new's URL, whose file_set holds
\* d/en.md and only originals changed by new; guide/en.md against
\* guide/es.md gives exactly that one conflict with file_set [guide/en.md].
C5_NewOriginalChange ==
    Compared =>
      /\ \A d \in Dirs :
           (Changes(new_pull, ArticlePath(d, En))
              /\ \E xx \in Translations : Changes(other_pull, ArticlePath(d, xx)))
             => \E i \in 1..Len(Out) :
                  /\ Out[i].kind = NewOriginalChange
                  /\ Out[i].trigger = other_pull.number
                  /\ Out[i].original = new_pull.number
                  /\ Out[i].reference_url = new_pull.html_url
                  /\ ArticlePath(d, En) \in Range(Out[i].file_set)
                  /\ Range(Out[i].file_set) = RecordedOriginals
      /\ (new_pull.diff = Some(<<PatchedFile(GuideEn)>>)
            /\ other_pull.diff = Some(<<PatchedFile(GuideEs)>>))
           => Out = <<Conflict(NewOriginalChange, other_pull.number, new_pull.number,
                               new_pull.html_url, <<GuideEn>>)>>

\* compare(A, B) has run for distinct pulls, A changing guide/en.md and B
\* guide/es.md.
C5_Witness ==
    /\ Compared
    /\ new_pull.number # other_pull.number
    /\ Changes(new_pull, GuideEn)
    /\ Changes(other_pull, GuideEs)
    /\ OutOfKind(NewOriginalChange) # {}

\* C6 as stated: when new changes a translation d/xx.md and other changes
\* d/en.md, the result has an ExistingOriginalChange with trigger =
\* new.number, original = other.number, whose file_set names the original
\* file d/en.md.
C6_FileSetNamesOriginal ==
    Compared =>
      \A d \in Dirs :
        (Changes(other_pull, ArticlePath(d, En))
           /\ \E xx \in Translations : Changes(new_pull, ArticlePath(d, xx)))
          => \E i \in 1..Len(Out) :
               /\ Out[i].kind = ExistingOriginalChange
               /\ Out[i].trigger = new_pull.number
               /\ Out[i].original = other_pull.number
               /\ ArticlePath(d, En) \in Range(Out[i].file_set)

\* C6, amended: when new changes a translation d/xx.md and other changes
\* d/en.md, the result has an ExistingOriginalChange with trigger =
\* new.number, original = other.number, reference_url = other's URL, whose
\* file_set contains the translation d/xx.md changed by new and no original;
\* guide/es.md against guide/en.md gives exactly that one conflict with
\* file_set [guide/es.md].
C6_ExistingOriginalChange ==
    Compared =>
      /\ \A d \in Dirs : \A xx \in Translations :
           (Changes(other_pull, ArticlePath(d, En))
              /\ Changes(new_pull, ArticlePath(d, xx)))
             => \E i \in 1..Len(Out) :
                  /\ Out[i].kind = ExistingOriginalChange
                  /\ Out[i].trigger = new_pull.number
                  /\ Out[i].original = other_pull.number
                  /\ Out[i].reference_url = other_pull.html_url
                  /\ ArticlePath(d, xx) \in Range(Out[i].file_set)
                  /\ \A f \in Range(Out[i].file_set) : LangOf(f) # En
      /\ (new_pull.diff = Some(<<PatchedFile(GuideEs)>>)
            /\ other_pull.diff = Some(<<PatchedFile(GuideEn)>>))
           => Out = <<Conflict(ExistingOriginalChange, new_pull.number, other_pull.number,
                               other_pull.html_url, <<GuideEs>>)>>

\* compare(B, A) has run for distinct pulls, B changing guide/es.md and A
\* guide/en.md.
C6_Witness ==
    /\ Compared
    /\ new_pull.number # other_pull.number
    /\ Changes(new_pull, GuideEs)
    /\ Changes(other_pull, GuideEn)
    /\ OutOfKind(ExistingOriginalChange) # {}

\* The two pulls have diffs and no .md file of one lies in the directory of
\* an .md file of the other.
DisjointArticles ==
    /\ new_pull.diff # None
    /\ other_pull.diff # None
    /\ \A p \in MdPaths(new_pull) : \A q \in MdPaths(other_pull) : DirOf(p) # DirOf(q)

\* C7: two pulls whose changed .md files share no article directory have
\* no conflicts, whichever of the two is the new one.
C7_DisjointArticlesNoConflict ==
    (conflicts # None /\ DisjointArticles)
      => /\ conflicts.some = Some(<<>>)
         /\ compare_pulls(other_pull, new_pull) = Some(<<>>)

\* compare_pulls has run on two pulls that change .md files of different
\* articles, an original on one side and a translation on the other.
C7_Witness ==
    /\ conflicts # None
    /\ DisjointArticles
    /\ \E p \in MdPaths(new_pull) : \E q \in MdPaths(other_pull) :
         LangOf(p) = En /\ LangOf(q) # En

\* v is strictly ascending in byte order.
StrictlySorted(v) == \A i \in 1..(Len(v) - 1) : StrCmp(v[i], v[i + 1]) < 0

\* C8: a pull that changes .md files, compared with itself, gets exactly one
\* ExistingChange conflict, with trigger = original = its number and a
\* file_set that lists, sorted and once each, the .md paths of its diff.
C8_SelfCompare ==
    (conflicts # None /\ new_pull = other_pull /\ MdPaths(new_pull) # {})
      => /\ Compared
         /\ Cardinality(OutOfKind(ExistingChange)) = 1
         /\ \A i \in OutOfKind(ExistingChange) :
              /\ Out[i].trigger = new_pull.number
              /\ Out[i].original = new_pull.number
              /\ StrictlySorted(Out[i].file_set)
              /\ Range(Out[i].file_set) = MdPaths(new_pull)

\* C9: every file_set returned is strictly ascending.
C9_FileSetsStrictlySorted ==
    Compared => \A i \in 1..Len(Out) : StrictlySorted(Out[i].file_set)

(***************************************************************************)
(* Properties of pick_token and the operations built on it.                *)
(***************************************************************************)
\* Installation i is registered and its repository list names r.
Lists(i, r) == installations[i] # None /\ r \in installations[i].some

\* No repository is listed by two registered installations.
UniqueOwnership ==
    \A r \in Repos : \A i, j \in Tenants : (Lists(i, r) /\ Lists(j, r)) => i = j

\* v is an installation token the remote issued to installation i.
IssuedTo(v, i) == "installation" \in DOMAIN v /\ v.installation = i

C11_ResolvesOwner ==
    \A p \in Procs : \A i \in Tenants :
      (/\ task[p].pc = "resolve" /\ Moves(p)
       /\ UniqueOwnership
       /\ Lists(i, task[p].repo.some))
        => /\ task'[p].pc = "inst_check"
           /\ task'[p].iid = Some(i)
           /\ tokens' = tokens

C11_CachedOrExchanged ==
    \A p \in Procs :
      (task[p].op \in RepoOps /\ Moves(p))
        => /\ (task[p].pc = "inst_check" /\ task'[p].pc # "jwt_check")
                => /\ tokens[Installation(task[p].iid.some)] # None
                   /\ Yields(task'[p], tokens[Installation(task[p].iid.some)].some.t)
           /\ task[p].pc = "inst_insert"
                => /\ IssuedTo(task[p].response.some.token, task[p].iid.some)
                   /\ Yields(task'[p], task[p].response.some.token)

C11_KeyedByTenant ==
    \A i \in Tenants :
      tokens[Installation(i)] # None => IssuedTo(tokens[Installation(i)].some.t, i)

C11_ReturnsOwnersToken ==
    \A p \in Procs :
      (Returned(p, "pick_token") /\ IsOk(task[p].ret.some))
        => /\ Lists(task[p].iid.some, task[p].repo.some)
           /\ IssuedTo(task[p].ret.some.ok, task[p].iid.some)

\* C11: while no repository is listed by two registered installations,
\* pick_token(repo) asks for the token of the one installation t that lists
\* repo; what it returns is the value cached under Installation(t) or the
\* token of an exchange made for t: a token the remote issued to t, never
\* one issued to another installation and never the JWT.
C11_PickTokenUsesOwner ==
    /\ [](C11_KeyedByTenant /\ C11_ReturnsOwnersToken)
    /\ [][C11_ResolvesOwner /\ C11_CachedOrExchanged]_vars

\* pick_token has returned the token of the repository's only owner while
\* another installation is registered and has a token in the cache.
C11_Witness ==
    \E p \in Procs : \E j \in Tenants :
      /\ Returned(p, "pick_token")
      /\ IsOk(task[p].ret.some)
      /\ UniqueOwnership
      /\ j # task[p].iid.some
      /\ installations[j] # None
      /\ tokens[Installation(j)] # None

\* The pages 1..n, each standing for the pull requests the remote returned
\* on it.
PagesUpTo(n) == [i \in 1..n |-> i]

\* While pulls is waiting for a page, that page is one of 1..99 and the
\* list holds the pages before it, in order.
C12_PagesInOrder ==
    \A p \in Procs :
      task[p].pc = "pulls_page"
        => /\ task[p].page \in 1..99
           /\ task[p].out = PagesUpTo(task[p].page - 1)
           /\ task[p].token # None

\* Task p gets the answer a to the request for its current page.
PageAnswered(p, a) ==
    task[p].pc = "pulls_page" /\ Moves(p) /\ task'[p].answer = Some(a)

\* What pulls does with the answer to the request for its current page: a
\* non-empty page is appended and the next page requested with the same
\* token (page 99 being the last); the first empty page ends the call with
\* the pages before it and no further request; a failed request ends the
\* call with an error, which carries no list.
C12_OnePage ==
    \A p \in Procs :
      /\ (task[p].pc = "pulls_page" /\ Moves(p))
           => task'[p].answer \in {Some(a) : a \in {"page", "empty"} \cup RemoteFailures}
      /\ (PageAnswered(p, "page") /\ task[p].page < 99)
           => /\ task'[p].pc = "pulls_page"
              /\ task'[p].page = task[p].page + 1
              /\ task'[p].token = task[p].token
              /\ task'[p].out = Append(task[p].out, task[p].page)
      /\ (PageAnswered(p, "page") /\ task[p].page = 99)
           => /\ task'[p].pc = "done"
              /\ task'[p].ret = Some(Ok([pulls |-> Append(task[p].out, 99)]))
      /\ PageAnswered(p, "empty")
           => /\ task'[p].pc = "done"
              /\ task'[p].ret = Some(Ok([pulls |-> task[p].out]))
      /\ \A f \in RemoteFailures :
           PageAnswered(p, f)
             => /\ task'[p].pc = "done"
                /\ task'[p].ret = Some(Err("remote"))

C12_ReturnsPrefix ==
    \A p \in Procs :
      (Returned(p, "pulls") /\ IsOk(task[p].ret.some))
        => \E n \in 0..99 : task[p].ret.some.ok.pulls = PagesUpTo(n)

\* C12: pulls requests the pages 1, 2, 3, ... in this order with one token;
\* the answer to a request either is non-empty, and is appended before the
\* next page is requested, or is empty, and the call returns the pages
\* before it, or is a failure, and the call returns an error and no list;
\* page 99 is the last one requested.
C12_Pagination ==
    /\ [](C12_PagesInOrder /\ C12_ReturnsPrefix)
    /\ [][C12_OnePage]_vars

\* The claim without the panic of throw_error: a page request that fails
\* either ends the call with an error or ends the task in the panic.
C12_FailureReturnsOrPanics ==
    [][\A p \in Procs : \A f \in RemoteFailures :
         PageAnswered(p, f)
           => /\ task'[p].pc = "done"
              /\ task'[p].ret \in {Some(Err("remote")), Some(Panic)}
              /\ task'[p].ret = Some(Panic) => f = "decode"]_vars

\* pulls has returned 99 pages.
C12_Witness ==
    \E p \in Procs :
      /\ Returned(p, "pulls")
      /\ IsOk(task[p].ret.some)
      /\ Len(task[p].ret.some.ok.pulls) = 99

(***************************************************************************)
(* Further properties of compare_pulls and of Article.                     *)
(***************************************************************************)
\* C13: compare_pulls on a pull whose diff is absent, on either side or on
\* both, panics whatever the other diff holds; it returns no list, not even
\* an empty one.
C13_AbsentDiffPanics ==
    (conflicts # None /\ (new_pull.diff = None \/ other_pull.diff = None))
      => /\ IsPanic(conflicts.some)
         /\ conflicts.some # Some(<<>>)

\* compare_pulls has run on a pull without a diff and one whose diff
\* changes an .md file.
C13_Witness ==
    /\ conflicts # None
    /\ new_pull.diff = None
    /\ MdPaths(other_pull) # {}

\* from_file_path has run and returned an Article.
Parsed == article # None /\ ~IsPanic(article.some)

GuideGuideEn == <<"g", "/", "g", "/", "e", "n", ".", "m", "d">>

GuideGuideEs == <<"g", "/", "g", "/", "e", "s", ".", "m", "d">>

\* C16: for a path that ends in .md and that from_file_path accepts,
\* file_path() of the Article gives the path back; g/g/en.md gives
\* Article{path = g/g, language = en}, an original, g/g/es.md a
\* translation; an Article is an original or a translation, never both.
C16_RoundTrip ==
    Parsed =>
      /\ EndsWith(path_arg, DotMd) => file_path(article.some) = path_arg
      /\ path_arg = GuideGuideEn
           => /\ article.some = [path |-> <<"g", "/", "g">>, language |-> En]
              /\ is_original(article.some)
      /\ path_arg = GuideGuideEs => is_translation(article.some)
      /\ is_original(article.some) # is_translation(article.some)

\* The path has no directory part: it is empty or a bare file name.
NoParentDirectory(s) == LastIndexOf(s, "/") = 0

\* The path is <non-empty directory>/<stem>.md with a non-empty stem.
DirectoryAndStem(s) ==
    /\ LastIndexOf(s, "/") > 1
    /\ EndsWith(s, DotMd)
    /\ Len(s) - LastIndexOf(s, "/") > Len(DotMd)

\* C17: from_file_path fails, giving no Article, on every path without a
\* parent directory, the empty string and a bare file name such as en.md
\* among them, and gives an Article for every path
\* <non-empty directory>/<stem>.md.
C17_MalformedPathFails ==
    article # None =>
      /\ NoParentDirectory(path_arg) => IsPanic(article.some)
      /\ DirectoryAndStem(path_arg) => ~IsPanic(article.some)

\* The half of C17 on the paths from_file_path accepts.
C17_AcceptsDirectoryAndStem ==
    (article # None /\ DirectoryAndStem(path_arg)) => ~IsPanic(article.some)

\* Both pulls have a diff.
DiffsAttached == new_pull.diff # None /\ other_pull.diff # None

\* Of the lists the loops of compare_pulls collect, the one for a kind of
\* conflict.
Collected(lists, kind) ==
    CASE kind = ExistingChange -> lists.overlaps
      [] kind = NewOriginalChange -> lists.originals
      [] kind = ExistingOriginalChange -> lists.translations

ConflictTypes == {ExistingChange, NewOriginalChange, ExistingOriginalChange}

\* C18: for two pulls with diffs, compare_pulls returns at most three
\* conflicts, at most one of a kind, none with an empty file_set, ordered
\* ExistingChange, NewOriginalChange, ExistingOriginalChange; a kind is
\* present exactly when the list collected for it is not empty.
C18_OnePerKindInOrder ==
    (conflicts # None /\ DiffsAttached) =>
      /\ Compared
      /\ Len(Out) <= 3
      /\ \A i \in 1..Len(Out) : Out[i].kind \in ConflictTypes /\ Out[i].file_set # <<>>
      /\ \A i, j \in 1..Len(Out) : i < j => KindRank(Out[i].kind) < KindRank(Out[j].kind)
      /\ LET lists == CollectLists(new_pull, other_pull)
         IN  \A kind \in ConflictTypes :
               OutOfKind(kind) # {} <=> Collected(lists, kind) # <<>>

\* compare_pulls has returned three conflicts.
C18_Witness ==
    /\ Compared
    /\ Len(Out) = 3
    /\ new_pull.number # other_pull.number

\* The .md files both pulls change.
ChangedByBoth == MdPaths(new_pull) \cap MdPaths(other_pull)

\* The pulls change translations only, and no file in common.
OnlyDifferentTranslations ==
    /\ ChangedByBoth = {}
    /\ \A p \in MdPaths(new_pull) \cup MdPaths(other_pull) : LangOf(p) # En

C19_Body(files) ==
    /\ Compared
    /\ OutOfKind(ExistingChange) # {} <=> files # {}
    /\ \A i \in OutOfKind(ExistingChange) :
         /\ Out[i].trigger = new_pull.number
         /\ Out[i].original = other_pull.number
         /\ Out[i].reference_url = other_pull.html_url
         /\ Range(Out[i].file_set) = files
         /\ Len(Out[i].file_set) = Cardinality(files)
    /\ OnlyDifferentTranslations => Out = <<>>

\* C19: compare_pulls(new, other) returns an ExistingChange exactly when
\* some .md file is changed by both pulls; it has trigger = new.number,
\* original = other.number, reference_url = other's URL, and its file_set
\* is the set of the .md files changed by both.  Pulls that change only
\* different translations get no conflict.
C19_ExistingChangeIsTheOverlap ==
    (conflicts # None /\ DiffsAttached) => C19_Body(ChangedByBoth)

\* The same for pulls that change no .md file outside a directory.
C19_BelowTheRoot ==
    (/\ conflicts # None /\ DiffsAttached
     /\ \A p \in ChangedByBoth : LastIndexOf(p, "/") > 0)
      => C19_Body(ChangedByBoth)

(***************************************************************************)
(* Failures of the remote.                                                 *)
(***************************************************************************)
\* C14: when the POST of post_comment fails, post_comment returns the error,
\* the token cache and the registry are as they were once the token was
\* selected, and a token request that follows while the clock is strictly
\* before the entry's expires_at gets the token post_comment used.
C14_FailedPostKeepsCredentials ==
    [][\A p \in Procs :
         (/\ task[p].pc = "post" /\ Moves(p)
          /\ task'[p].ret = Some(Err("remote")))
           => /\ task'[p].pc = "done"
              /\ tokens' = tokens
              /\ installations' = installations
              /\ InWindow(Installation(task[p].iid.some))
                   => cached_token(tokens', Installation(task[p].iid.some), now')
                        = task[p].token]_vars

\* The same step, without the following request: the failure changes
\* neither the cache nor the registry.
C14_FrameOnly ==
    [][\A p \in Procs :
         (/\ task[p].pc = "post" /\ Moves(p)
          /\ task'[p].ret = Some(Err("remote")))
           => /\ task'[p].pc = "done"
              /\ tokens' = tokens
              /\ installations' = installations]_vars

\* The steps task p takes by itself, with no answer from the remote: the
\* lock sections and the registry scan.
OwnStep(p) ==
    \/ Lock(p)
    \/ CachedTokenJwt(p)
    \/ GenerateJwt(p)
    \/ InsertJwt(p)
    \/ CachedTokenInstallation(p)
    \/ InsertInstallationToken(p)
    \/ RegistryInsert(p)
    \/ RemoveFromRegistry(p)
    \/ RemoveFromCache(p)
    \/ ResolveInstallation(p)

\* A call waiting for the answer to its exchange can go on by itself.
C15_ExchangeTimesOut ==
    \A p \in Procs : task[p].pc = "exchange" => ENABLED OwnStep(p)

\* The answer to the exchange is followed by the insert or by the return of
\* the error, not by another exchange.
C15_NoRetry ==
    \A p \in Procs :
      (task[p].pc = "exchange" /\ Moves(p))
        => /\ task'[p].pc \in {"inst_insert", "done"}
           /\ task'[p].pc = "done" => ~IsOk(task'[p].ret.some)

\* C15: a get_installation_token call does not depend on the remote to
\* complete: while it waits for the answer to the exchange it can end by
\* itself (the timeout, with an error), and it sends one exchange request
\* at most.
C15_CompletesWithoutRemote ==
    /\ []C15_ExchangeTimesOut
    /\ [][C15_NoRetry]_vars

\* Task p gets the failure of its exchange: a transport error or an error
\* status.
ExchangeFails(p) ==
    /\ task[p].pc = "exchange" /\ Moves(p)
    /\ task'[p].answer \in {Some("transport"), Some("status")}

\* From the cache check of get_installation_token to the failure of the
\* exchange, no entry of an installation changes; the failure is returned
\* and is not followed by another exchange.
C20_Frame ==
    \A p \in Procs :
      /\ (task[p].pc \in {"inst_check", "jwt_check", "jwt_mint", "jwt_insert"} /\ Moves(p))
           => \A i \in Tenants : tokens'[Installation(i)] = tokens[Installation(i)]
      /\ ExchangeFails(p)
           => /\ task'[p].pc = "done"
              /\ task'[p].ret = Some(Err("remote"))
              /\ tokens' = tokens
              /\ installations' = installations
              /\ serial' = serial

\* After the failure a request for the same installation finds no token to
\* return and goes to the remote again.
C20_NextRequestExchanges ==
    \A p \in Procs :
      ExchangeFails(p)
        => cached_token(tokens', Installation(task[p].iid.some), now') = None

\* C20: when the exchange fails, get_installation_token(t) returns an
\* error, inserts nothing under Installation(t), leaves the entries of all
\* installations as they were (a JWT is all it may have cached), does not
\* retry, and the next request for t attempts a new exchange.
C20_FailedExchange == [][C20_Frame /\ C20_NextRequestExchanges]_vars

\* C20 without its last clause.
C20_FrameOnly == [][C20_Frame]_vars

(***************************************************************************)
(* Concurrent calls.                                                       *)
(***************************************************************************)
\* v is a token of one of the exchanges made so far for installation i.
Minted(v, i) == IssuedTo(v, i) /\ v.serial \in 1..serial

\* A finished call has a token that an exchange for its installation
\* issued, and the cache has an entry for that installation.
C21_ReturnsMinted ==
    \A p \in Procs :
      Returned(p, "get_installation_token")
        => /\ IsOk(task[p].ret.some)
           /\ Minted(task[p].ret.some.ok, task[p].iid.some)
           /\ tokens[Installation(task[p].iid.some)] # None

\* The cache holds nothing but tokens the exchanges issued.
C21_CacheHoldsMinted ==
    \A i \in Tenants :
      tokens[Installation(i)] # None => Minted(tokens[Installation(i)].some.t, i)

\* An insert leaves the token of its own exchange in the cache, and the
\* call returns that token.
C21_LastInsertWins ==
    \A p \in Procs :
      (task[p].pc = "inst_insert" /\ Moves(p))
        => /\ tokens'[Installation(task[p].iid.some)] # None
           /\ tokens'[Installation(task[p].iid.some)].some.t = task[p].response.some.token
           /\ task'[p].ret = Some(Ok(task[p].response.some.token))

\* Only an insert changes the entry of an installation, and no entry is
\* taken away.
C21_EntryStays ==
    \A i \in Tenants :
      tokens'[Installation(i)] # tokens[Installation(i)]
        => \E p \in Procs :
             /\ task[p].pc = "inst_insert" /\ Moves(p)
             /\ task[p].iid = Some(i)

\* C21: get_installation_token calls running concurrently from a cache
\* miss, every exchange succeeding: each call returns a token that an
\* exchange for its installation issued (so at least one was issued); the
\* cache entry is the token inserted last; the cache has an entry once a
\* call has finished and holds only issued tokens.
C21_ConcurrentMisses ==
    /\ [](C21_ReturnsMinted /\ C21_CacheHoldsMinted)
    /\ [][C21_LastInsertWins /\ C21_EntryStays]_vars

\* Two calls for one installation have both missed, both exchanged (the
\* misses were not coalesced) and finished, and the cache holds the older
\* of the two tokens.
C21_Witness ==
    \E i \in Tenants :
      /\ \A p \in 1..2 :
            Returned(p, "get_installation_token") /\ task[p].iid = Some(i)
      /\ task[1].ret.some.ok # task[2].ret.some.ok
      /\ tokens[Installation(i)] # None
      /\ \E p \in 1..2 :
            tokens[Installation(i)].some.t.serial < task[p].ret.some.ok.serial

(***************************************************************************)
(* Locks.                                                                  *)
(***************************************************************************)
\* The positions at which a task waits for an answer of the remote.
RemotePcs == {"exchange", "list_repos", "list_installations", "pulls_page", "post", "diff"}

HeldBy(p) == {m \in Mutexes : locked[m] = Some(p)}

\* A task that waits for the remote, or that is in no operation, holds no
\* guard.
C22_NoGuardAcrossRemote ==
    \A p \in Procs :
      (task[p].pc \in RemotePcs \/ Finished(task[p])) => HeldBy(p) = {}

\* No task holds the guards of both Mutexes.
C22_NeverBothGuards ==
    \A p \in Procs : Cardinality(HeldBy(p)) <= 1

\* A task that holds a guard can run its section, which gives the guard back.
C22_HolderProceeds ==
    \A p \in Procs :
      \A m \in HeldBy(p) :
        /\ task[p].pc \in SectionPcs
        /\ SectionLock(task[p].pc) = m
        /\ ENABLED (OwnStep(p) /\ locked'[m] = None)

\* A task that stands before a section can take the guard, unless a task
\* other than itself is holding it.
C22_WaitsForHolderOnly ==
    \A p \in Procs :
      (task[p].pc \in SectionPcs /\ HeldBy(p) = {})
        => \/ ENABLED Lock(p)
           \/ \E q \in Procs \ {p} : Holds(q, SectionLock(task[p].pc))

\* A task inside an operation that stands neither before a section nor
\* before an answer of the remote can take its next step.
C22_LocalStepEnabled ==
    \A p \in Procs :
      (~Finished(task[p]) /\ task[p].pc \notin SectionPcs \cup RemotePcs)
        => ENABLED OwnStep(p)

\* C22: no operation holds the guard of the token cache or of the registry
\* while it waits for the remote, and none holds both; so a task that is
\* inside an operation and not waiting for the remote can always take its
\* next step or waits for a guard whose holder can (no deadlock), whatever
\* exchange of another task is in flight.
C22_LockDiscipline ==
    /\ C22_NoGuardAcrossRemote
    /\ C22_NeverBothGuards
    /\ C22_HolderProceeds
    /\ C22_WaitsForHolderOnly
    /\ C22_LocalStepEnabled

\* While the exchange of one task for one tenant is in flight, a
\* get_installation_token call of another task for another tenant holds the
\* guard of the token cache, about to insert its token and return.
C22_Witness ==
    \E p, q \in Procs :
      /\ task[q].pc = "exchange"
      /\ task[p].op = "get_installation_token"
      /\ task[p].pc = "inst_insert"
      /\ task[p].iid # task[q].iid
      /\ Holds(p, "tokens")

====
